---- MODULE Spec2Model ----
(***************************************************************************)
(* Model of the translation store of FKSE/translator-app (translator.go). *)
(*                                                                         *)
(* Go maps are reference values: t.languages maps a language code to a    *)
(* reference to a Language map, and two codes may hold the same           *)
(* reference.  The model keeps the map objects in `heap` and the          *)
(* references in `languages`.  Strings that the code inspects (flat keys, *)
(* JSON member names) are sequences of one-character strings.             *)
(***************************************************************************)
EXTENDS Integers, Sequences, FiniteSets, TLC

VARIABLES
    languages,      \* t.languages    : language code -> reference into heap
    heap,           \* the Language map objects: reference -> (key -> Translation)
    languagesRaw,   \* t.languagesRaw : language code -> cached bytes
    files,          \* <directory>/<code>.json : language code -> bytes on disk
    last,           \* the call that returned last, with what it returned
    nops,           \* number of calls made so far
    mutexLang,      \* t.mutexLang : the goroutine that holds it, or NoThread
    mutexRaw,       \* t.mutexRaw  : the goroutine that holds it, or NoThread
    threads,        \* the goroutines that run calls concurrently: position and locals
    access,         \* the access to t.languages, a Language map or t.languagesRaw made by the last step
    crashed         \* the runtime has stopped the process (fatal error: concurrent map access)

vars == <<languages, heap, languagesRaw, files, last, nops, mutexLang, mutexRaw, threads, access, crashed>>

\* what the calls that run one at a time leave alone
concVars == <<mutexLang, mutexRaw, threads, access, crashed>>

----------------------------------------------------------------------------
(* Bounds *)

\* calls explored after construction
MaxOps == 2

----------------------------------------------------------------------------
(* Values *)

Codes == {"de", "en", "fr"}

\* template strings handed to Set and found in documents
TX == <<"x">>
TY == <<"y">>
Templates == {TX, TY}

\* flat keys handed to Get / Set / Remove: "a", "b" and "b.c"
KA == <<"a">>
KB == <<"b">>
KBC == <<"b", ".", "c">>
Keys == {KA, KB, KBC}

\* flat keys handed to Set: those, and "b." (the handler passes the request's
\* "id" on as it comes)
KBDot == <<"b", ".">>
SetKeys == Keys \cup {KBDot}

\* the zero value of a Go string
EmptyString == <<>>

\* type Translation struct { Key, Template }
Translation(key, template) == [Key |-> key, Template |-> template]

\* the zero value of Translation, which a Go map yields for a missing key
ZeroTranslation == [Key |-> EmptyString, Template |-> EmptyString]

\* an interface{} value: its dynamic type and the value it holds
Interface(type, v) == [type |-> type, v |-> v]

\* the dynamic types of the values a descriptor holds under "translations"
SliceOfTranslation == "[]Translation"
MapOfInterface == "map[string]interface{}"

\* an empty Go map (make(map[...]...)); the function with the empty domain
EmptyMap == <<>>

\* m[k] = v on a Go map
MapPut(m, k, v) == [x \in (DOMAIN m) \cup {k} |-> IF x = k THEN v ELSE m[x]]

\* delete(m, k) on a Go map
MapDelete(m, k) == [x \in (DOMAIN m) \ {k} |-> m[x]]

\* v := m[k] on a Language map: the zero value when k is missing
MapIndex(m, k) == IF k \in DOMAIN m THEN m[k] ELSE ZeroTranslation

----------------------------------------------------------------------------
(* JSON documents.  A JSON object is a function from member names to      *)
(* values; a value is a string, an object, or something else (number,    *)
(* bool, null, array).                                                    *)

JString(s) == [type |-> "string", s |-> s]
JObject(m) == [type |-> "object", m |-> m]
JOther == [type |-> "other"]

\* the bytes of a document: its formatting and the object they decode to
Bytes(fmt, doc) == [fmt |-> fmt, doc |-> doc]

\* json.Unmarshal(b, &lang)
Unmarshal(b) == b.doc

\* json.Marshal / json.MarshalIndent of a map (members sorted by name)
Marshal(target, indent) == Bytes(IF indent THEN "indent" ELSE "compact", target)

----------------------------------------------------------------------------
(* extractKeys *)

\* prefix + k with no separator between them
JoinKeyPlain(prefix, k) == prefix \o k

\* prefix + k with the separator extractKeys puts between them
JoinKey(prefix, k) == IF prefix = EmptyString THEN k ELSE prefix \o <<".">> \o k

\* for sk, vk := range sub { keys[sk] = vk }
MapMerge(keys, sub) ==
    [x \in (DOMAIN keys) \cup (DOMAIN sub) |-> IF x \in DOMAIN sub THEN sub[x] ELSE keys[x]]

\* extractKeys(prefix, m): the maps it can return, one per iteration order
\* of the ranges over m (a later assignment to the same flat key wins).
RECURSIVE extractKeys(_, _)
extractKeys(prefix, m) ==
    IF DOMAIN m = {} THEN {EmptyMap}
    ELSE UNION {
        LET key == JoinKey(prefix, k)
            v == m[k]
            befores == extractKeys(prefix, [x \in (DOMAIN m) \ {k} |-> m[x]])
        IN  CASE v.type = "string" ->
                    {MapPut(keys, key, Translation(key, v.s)) : keys \in befores}
              [] v.type = "object" ->
                    UNION {{MapMerge(keys, sub) : sub \in extractKeys(key, v.m)} : keys \in befores}
              [] OTHER -> befores
        : k \in DOMAIN m}

----------------------------------------------------------------------------
(* insert and the loop of syncRaw that re-nests a flat map *)

HasDot(key) == \E i \in 1 .. Len(key) : key[i] = "."

\* index of the first "." of key
FirstDot(key) == CHOOSE i \in 1 .. Len(key) : key[i] = "." /\ \A j \in 1 .. (i - 1) : key[j] # "."

\* keyParts := strings.SplitN(key, ".", 2)
KeyHead(key) == SubSeq(key, 1, FirstDot(key) - 1)
KeyRest(key) == SubSeq(key, FirstDot(key) + 1, Len(key))

\* insert(key, value, target): the target afterwards, or a panic when the
\* type assertion c.(map[string]interface{}) meets a string
RECURSIVE insert(_, _, _)
insert(key, value, target) ==
    IF ~HasDot(key) THEN [panic |-> FALSE, target |-> MapPut(target, key, JString(value))]
    ELSE LET head == KeyHead(key)
             exists == head \in DOMAIN target
         IN  IF exists /\ target[head].type # "object"
             THEN [panic |-> TRUE, target |-> target]
             ELSE LET child == IF exists THEN target[head].m ELSE EmptyMap
                      r == insert(KeyRest(key), value, child)
                  IN  IF r.panic THEN [panic |-> TRUE, target |-> target]
                      ELSE [panic |-> FALSE, target |-> MapPut(target, head, JObject(r.target))]

\* for key, translation := range language { insert(key, translation.Template, target) }
\* from `target` on, over the keys `todo`: every result an iteration order can give
RECURSIVE insertAll(_, _, _)
insertAll(language, todo, target) ==
    IF todo = {} THEN {[panic |-> FALSE, target |-> target]}
    ELSE UNION {
        LET r == insert(k, language[k].Template, target)
        IN  IF r.panic THEN {r} ELSE insertAll(language, todo \ {k}, r.target)
        : k \in todo}

----------------------------------------------------------------------------
(* The store: the fields of Translator and the directory behind it *)

Store == [languages |-> languages, heap |-> heap, languagesRaw |-> languagesRaw, files |-> files]

\* the order in which filepath.Walk visits <code>.json (lexical)
CodeOrder == <<"de", "en", "fr">>

ErrLanguageNotFound == "ErrLanguageNotFound"
ErrNotExist == "ErrNotExist"
Panic == "panic"
Nil == "nil"

Range(f) == {f[x] : x \in DOMAIN f}

\* position in CodeOrder of the first code that holds reference ref
FirstHolder(langs, ref) ==
    CHOOSE i \in 1 .. Len(CodeOrder) :
        /\ CodeOrder[i] \in DOMAIN langs /\ langs[CodeOrder[i]] = ref
        /\ \A j \in 1 .. (i - 1) : ~(CodeOrder[j] \in DOMAIN langs /\ langs[CodeOrder[j]] = ref)

\* The map objects no code refers to any more are dropped and the rest are
\* renumbered 1..n by first holder: a reference's number is not observable.
Collect(st) ==
    LET live == Range(st.languages)
        rank(ref) == Cardinality({q \in live : FirstHolder(st.languages, q) <= FirstHolder(st.languages, ref)})
        byRank(n) == CHOOSE ref \in live : rank(ref) = n
    IN  [st EXCEPT !.languages = [c \in DOMAIN st.languages |-> rank(st.languages[c])],
                   !.heap = [n \in 1 .. Cardinality(live) |-> st.heap[byRank(n)]]]

\* a reference no live object has
NewRef(st) == Cardinality(DOMAIN st.heap) + 1

\* the Language map that code lang refers to
LanguageOf(st, lang) == st.heap[st.languages[lang]]

Outcome(st, err) == [st |-> st, err |-> err]

\* parseLanguage(name, b): one state per map extractKeys can return
parseLanguage(st, name, b) ==
    {LET ref == NewRef(st)
     IN  Collect([st EXCEPT !.languagesRaw = MapPut(st.languagesRaw, name, b),
                            !.heap = MapPut(st.heap, ref, keys),
                            !.languages = MapPut(st.languages, name, ref)])
     : keys \in extractKeys(EmptyString, Unmarshal(b))}

\* Load: the walk over the directory from position i of CodeOrder on
RECURSIVE LoadFrom(_, _)
LoadFrom(st, i) ==
    IF i > Len(CodeOrder) THEN {st}
    ELSE IF CodeOrder[i] \in DOMAIN st.files
         THEN UNION {LoadFrom(st2, i + 1) : st2 \in parseLanguage(st, CodeOrder[i], st.files[CodeOrder[i]])}
         ELSE LoadFrom(st, i + 1)

Load(st) == {Outcome(st2, Nil) : st2 \in LoadFrom(st, 1)}

\* Get that returns the zero Translation's template for a missing key
GetZeroValue(st, key, lang) ==
    IF lang \in DOMAIN st.languages
    THEN MapIndex(LanguageOf(st, lang), key).Template
    ELSE key

\* Get(key, lang)
Get(st, key, lang) ==
    IF lang \in DOMAIN st.languages
    THEN LET trans == LanguageOf(st, lang)
         IN  IF key \in DOMAIN trans THEN trans[key].Template ELSE key
    ELSE key

\* Set(key, value, lang)
Set(st, key, value, lang) ==
    IF lang \in DOMAIN st.languages
    THEN LET ref == st.languages[lang]
             trans == st.heap[ref]
             entry == [MapIndex(trans, key) EXCEPT !.Template = value]
         IN  Outcome([st EXCEPT !.heap[ref] = MapPut(trans, key, entry)], Nil)
    ELSE Outcome(st, ErrLanguageNotFound)

\* GetAll(key)
GetAll(st, key) ==
    LET has == {c \in DOMAIN st.languages : key \in DOMAIN LanguageOf(st, c)}
    IN  [c \in has |-> LanguageOf(st, c)[key].Template]

\* Remove that reports no error for a code that is not loaded
RemoveNoError(st, key, lang) ==
    IF lang \in DOMAIN st.languages
    THEN LET ref == st.languages[lang]
         IN  Outcome([st EXCEPT !.heap[ref] = MapDelete(st.heap[ref], key)], Nil)
    ELSE Outcome(st, Nil)

\* Remove(key, lang)
Remove(st, key, lang) ==
    IF lang \in DOMAIN st.languages
    THEN LET ref == st.languages[lang]
         IN  Outcome([st EXCEPT !.heap[ref] = MapDelete(st.heap[ref], key)], Nil)
    ELSE Outcome(st, ErrLanguageNotFound)

\* the orders in which a range over a map with key set S can visit it
RECURSIVE Orders(_)
Orders(S) ==
    IF S = {} THEN {<<>>}
    ELSE UNION {{<<x>> \o o : o \in Orders(S \ {x})} : x \in S}

NoDescriptor == [id |-> "", translations |-> Interface("nil", <<>>)]

\* Language(lang): the descriptors it can return (one per iteration order)
Language(st, lang) ==
    IF lang \in DOMAIN st.languages
    THEN LET translations == LanguageOf(st, lang)
         IN  {[desc |-> [id |-> lang,
                         translations |-> Interface(SliceOfTranslation,
                                              [i \in 1 .. Len(o) |-> translations[o[i]]])],
               err |-> Nil] : o \in Orders(DOMAIN translations)}
    ELSE {[desc |-> NoDescriptor, err |-> ErrLanguageNotFound]}

\* AddLanguage(lang, base): t.languages[lang] = translations, the base's own map
AddLanguage(st, lang, base) ==
    IF base \in DOMAIN st.languages
    THEN LET st2 == Collect([st EXCEPT !.languages = MapPut(st.languages, lang, st.languages[base])])
         IN  {[st |-> st2, desc |-> d.desc, err |-> d.err] : d \in Language(st2, lang)}
    ELSE {[st |-> st, desc |-> NoDescriptor, err |-> ErrLanguageNotFound]}

\* RemoveLanguage that leaves the cached bytes behind
RemoveLanguageKeepRaw(st, lang) ==
    IF lang \in DOMAIN st.languages
    THEN LET st2 == Collect([st EXCEPT !.languages = MapDelete(st.languages, lang)])
         IN  IF lang \in DOMAIN st.files
             THEN Outcome([st2 EXCEPT !.files = MapDelete(st.files, lang)], Nil)
             ELSE Outcome(st2, ErrNotExist)
    ELSE Outcome(st, ErrLanguageNotFound)

\* RemoveLanguage(lang); os.Remove fails when <lang>.json does not exist
RemoveLanguage(st, lang) ==
    IF lang \in DOMAIN st.languages
    THEN LET st2 == Collect([st EXCEPT !.languages = MapDelete(st.languages, lang),
                                       !.languagesRaw = MapDelete(st.languagesRaw, lang)])
         IN  IF lang \in DOMAIN st.files
             THEN Outcome([st2 EXCEPT !.files = MapDelete(st.files, lang)], Nil)
             ELSE Outcome(st2, ErrNotExist)
    ELSE Outcome(st, ErrLanguageNotFound)

\* the descriptors Language(c) can return for a loaded code c
Descriptors(st, c) == {d.desc : d \in Language(st, c)}

\* Languages(): the lists it can return; each element's "translations" is
\* the whole descriptor that Language(langCode) returned
Languages(st) ==
    LET loaded == DOMAIN st.languages
        picks == {f \in [loaded -> UNION {Descriptors(st, c) : c \in loaded}] :
                     \A c \in loaded : f[c] \in Descriptors(st, c)}
    IN  UNION {{[i \in 1 .. Len(o) |-> [id |-> o[i], translations |-> Interface(MapOfInterface, f[o[i]])]] : f \in picks}
               : o \in Orders(loaded)}

----------------------------------------------------------------------------
(* Sync *)

\* orphanKeys with the test inverted (deletes the keys base does hold)
RECURSIVE orphanKeysInverted(_, _, _, _)
orphanKeysInverted(h, ref, bref, todo) ==
    IF todo = {} THEN {h}
    ELSE UNION {
        orphanKeysInverted(IF key \in DOMAIN h[bref] THEN [h EXCEPT ![ref] = MapDelete(h[ref], key)] ELSE h,
                           ref, bref, todo \ {key})
        : key \in todo}

\* orphanKeys that leaves the loop after its first delete
RECURSIVE orphanKeysBreak(_, _, _, _)
orphanKeysBreak(h, ref, bref, todo) ==
    IF todo = {} THEN {h}
    ELSE UNION {
        IF key \notin DOMAIN h[bref]
        THEN {[h EXCEPT ![ref] = MapDelete(h[ref], key)]}
        ELSE orphanKeysBreak(h, ref, bref, todo \ {key})
        : key \in todo}

\* for key := range language { if _, ok := baseLanguage[key]; !ok { delete(language, key) } }
\* over the keys `todo` still to visit: the heaps an iteration order can give
RECURSIVE orphanKeys(_, _, _, _)
orphanKeys(h, ref, bref, todo) ==
    IF todo = {} THEN {h}
    ELSE UNION {
        orphanKeys(IF key \notin DOMAIN h[bref] THEN [h EXCEPT ![ref] = MapDelete(h[ref], key)] ELSE h,
                   ref, bref, todo \ {key})
        : key \in todo}

\* for langCode, language := range t.languages { if langCode != base { ... } }
RECURSIVE orphanLangs(_, _, _, _)
orphanLangs(langs, h, base, todo) ==
    IF todo = {} THEN {h}
    ELSE UNION {
        IF langCode # base
        THEN UNION {orphanLangs(langs, h2, base, todo \ {langCode})
                    : h2 \in orphanKeys(h, langs[langCode], langs[base], DOMAIN h[langs[langCode]])}
        ELSE orphanLangs(langs, h, base, todo \ {langCode})
        : langCode \in todo}

\* fillLangs that stores an entry without base's template
RECURSIVE fillLangsBlank(_, _, _, _, _, _)
fillLangsBlank(langs, h, base, key, translation, todo) ==
    IF todo = {} THEN {h}
    ELSE UNION {
        LET ref == langs[langCode]
        IN  fillLangsBlank(langs,
                      IF langCode # base /\ key \notin DOMAIN h[ref]
                      THEN [h EXCEPT ![ref] = MapPut(h[ref], key, ZeroTranslation)] ELSE h,
                      base, key, translation, todo \ {langCode})
        : langCode \in todo}

\* fillLangs without the test that the language lacks the key
RECURSIVE fillLangsOverwrite(_, _, _, _, _, _)
fillLangsOverwrite(langs, h, base, key, translation, todo) ==
    IF todo = {} THEN {h}
    ELSE UNION {
        LET ref == langs[langCode]
        IN  fillLangsOverwrite(langs,
                      IF langCode # base
                      THEN [h EXCEPT ![ref] = MapPut(h[ref], key, translation)] ELSE h,
                      base, key, translation, todo \ {langCode})
        : langCode \in todo}

\* for langCode, language := range t.languages {
\*     if langCode != base { if _, ok := language[key]; !ok { language[key] = translation } } }
RECURSIVE fillLangs(_, _, _, _, _, _)
fillLangs(langs, h, base, key, translation, todo) ==
    IF todo = {} THEN {h}
    ELSE UNION {
        LET ref == langs[langCode]
        IN  fillLangs(langs,
                      IF langCode # base /\ key \notin DOMAIN h[ref]
                      THEN [h EXCEPT ![ref] = MapPut(h[ref], key, translation)] ELSE h,
                      base, key, translation, todo \ {langCode})
        : langCode \in todo}

\* for key, translation := range baseLanguage { ... }
RECURSIVE fillKeys(_, _, _, _)
fillKeys(langs, h, base, todo) ==
    IF todo = {} THEN {h}
    ELSE UNION {
        UNION {fillKeys(langs, h2, base, todo \ {key})
               : h2 \in fillLangs(langs, h, base, key, h[langs[base]][key], DOMAIN langs)}
        : key \in todo}

\* Sync that removes orphans whatever orphanRemoval says
SyncAlwaysPrune(st, base, orphanRemoval) ==
    IF base \notin DOMAIN st.languages THEN {Outcome(st, ErrLanguageNotFound)}
    ELSE LET langs == st.languages
             pruned == orphanLangs(langs, st.heap, base, DOMAIN langs)
         IN  UNION {{Outcome([st EXCEPT !.heap = h2], Nil)
                     : h2 \in fillKeys(langs, h1, base, DOMAIN h1[langs[base]])}
                    : h1 \in pruned}

\* Sync(base, orphanRemoval): the outcomes the iteration orders can give
Sync(st, base, orphanRemoval) ==
    IF base \notin DOMAIN st.languages THEN {Outcome(st, ErrLanguageNotFound)}
    ELSE LET langs == st.languages
             pruned == IF orphanRemoval
                       THEN orphanLangs(langs, st.heap, base, DOMAIN langs)
                       ELSE {st.heap}
         IN  UNION {{Outcome([st EXCEPT !.heap = h2], Nil)
                     : h2 \in fillKeys(langs, h1, base, DOMAIN h1[langs[base]])}
                    : h1 \in pruned}

----------------------------------------------------------------------------
(* Save *)

\* syncRaw(lang, indent)
syncRaw(st, lang, indent) ==
    IF lang \in DOMAIN st.languages
    THEN LET language == LanguageOf(st, lang)
         IN  {IF r.panic THEN Outcome(st, Panic)
              ELSE Outcome([st EXCEPT !.languagesRaw = MapPut(st.languagesRaw, lang, Marshal(r.target, indent))], Nil)
              : r \in insertAll(language, DOMAIN language, EmptyMap)}
    ELSE {Outcome(st, ErrLanguageNotFound)}

\* for lang := range t.languages { syncRaw; os.Create; f.Write(t.languagesRaw[lang]); f.Close }
RECURSIVE SaveFrom(_, _, _)
SaveFrom(st, todo, indent) ==
    IF todo = {} THEN {Outcome(st, Nil)}
    ELSE UNION {
        UNION {IF r.err # Nil THEN {r}
               ELSE SaveFrom([r.st EXCEPT !.files = MapPut(r.st.files, lang, r.st.languagesRaw[lang])],
                             todo \ {lang}, indent)
               : r \in syncRaw(st, lang, indent)}
        : lang \in todo}

\* Save(indent)
Save(st, indent) == SaveFrom(st, DOMAIN st.languages, indent)

----------------------------------------------------------------------------
(* Goroutines.  The server runs each request's handler on its own          *)
(* goroutine, so calls on the store can overlap.                            *)

\* concurrent requests
NumThreads == 2

Threads == 1 .. NumThreads
NoThread == 0

\* the position and the locals of a goroutine that runs a call
Idle ==
    [pc |-> "idle", op |-> "", key |-> EmptyString, value |-> EmptyString, lang |-> "",
     base |-> "", flag |-> FALSE, ref |-> 0, bref |-> 0, cur |-> "", curKey |-> EmptyString,
     translation |-> ZeroTranslation, seenLangs |-> {}, snapLangs |-> {}, seenKeys |-> {},
     snapKeys |-> {}, target |-> EmptyMap, bytes |-> Bytes("empty", EmptyMap),
     plain |-> <<>>, list |-> <<>>, values |-> EmptyMap, str |-> EmptyString, err |-> Nil]

\* no access to the shared maps
NoAccess == [thread |-> NoThread, object |-> "none", kind |-> "none", locked |-> FALSE]

----------------------------------------------------------------------------
(* Construction *)

\* {"a": "x"}
DocOne == [k \in {KA} |-> JString(TX)]

\* {"a": "y", "b": {"c": "x"}, "n": 1}
DocTwo ==
    [k \in {KA, KB, <<"n">>} |->
        CASE k = KA -> JString(TY)
          [] k = KB -> JObject([c \in {<<"c">>} |-> JString(TX)])
          [] OTHER -> JOther]

\* the documents a directory may hold when the store is constructed
InitBytes == {Bytes("orig", DocOne), Bytes("orig", DocTwo)}

\* the directories NewTranslator may be given
InitFiles == UNION {[S -> InitBytes] : S \in SUBSET Codes}

\* &Translator{languagesRaw: make(...), languages: make(...)} over a directory
EmptyStore(dir) == [languages |-> EmptyMap, heap |-> <<>>, languagesRaw |-> EmptyMap, files |-> dir]

\* NewTranslator(directory): the stores it can return
NewTranslator(dir) == {r.st : r \in Load(EmptyStore(dir))}

\* what `last` holds for a call: the arguments and results it does not have are blank
Call(op) ==
    [op |-> op, key |-> EmptyString, value |-> EmptyString, lang |-> "", base |-> "",
     flag |-> FALSE, changed |-> FALSE, err |-> Nil, str |-> EmptyString, all |-> EmptyMap,
     desc |-> NoDescriptor, list |-> <<>>]

\* the store becomes st
Becomes(st) ==
    /\ languages' = st.languages
    /\ heap' = st.heap
    /\ languagesRaw' = st.languagesRaw
    /\ files' = st.files

Init ==
    \E dir \in InitFiles : \E st \in NewTranslator(dir) :
        /\ languages = st.languages
        /\ heap = st.heap
        /\ languagesRaw = st.languagesRaw
        /\ files = st.files
        /\ last = Call("NewTranslator")
        /\ nops = 0
        /\ mutexLang = NoThread
        /\ mutexRaw = NoThread
        /\ threads = [t \in Threads |-> Idle]
        /\ access = NoAccess
        /\ crashed = FALSE

----------------------------------------------------------------------------
(* One action per exported method, each a whole call *)

CallLoad ==
    /\ nops < MaxOps
    /\ \E r \in Load(Store) :
        /\ Becomes(r.st)
        /\ last' = [Call("Load") EXCEPT !.err = r.err, !.changed = (r.st # Store)]
    /\ nops' = nops + 1
    /\ UNCHANGED concVars

CallGet ==
    /\ nops < MaxOps
    /\ \E key \in Keys, lang \in Codes :
        last' = [Call("Get") EXCEPT !.key = key, !.lang = lang, !.str = Get(Store, key, lang)]
    /\ nops' = nops + 1
    /\ UNCHANGED concVars
    /\ UNCHANGED <<languages, heap, languagesRaw, files>>

CallSet ==
    /\ nops < MaxOps
    /\ \E key \in SetKeys, value \in Templates, lang \in Codes :
        LET r == Set(Store, key, value, lang)
        IN  /\ Becomes(r.st)
            /\ last' = [Call("Set") EXCEPT !.key = key, !.value = value, !.lang = lang, !.err = r.err, !.changed = (r.st # Store)]
    /\ nops' = nops + 1
    /\ UNCHANGED concVars

CallGetAll ==
    /\ nops < MaxOps
    /\ \E key \in Keys :
        last' = [Call("GetAll") EXCEPT !.key = key, !.all = GetAll(Store, key)]
    /\ nops' = nops + 1
    /\ UNCHANGED concVars
    /\ UNCHANGED <<languages, heap, languagesRaw, files>>

CallRemove ==
    /\ nops < MaxOps
    /\ \E key \in Keys, lang \in Codes :
        LET r == Remove(Store, key, lang)
        IN  /\ Becomes(r.st)
            /\ last' = [Call("Remove") EXCEPT !.key = key, !.lang = lang, !.err = r.err, !.changed = (r.st # Store)]
    /\ nops' = nops + 1
    /\ UNCHANGED concVars

\* (not a disjunct of Next: the orders of its lists multiply the states;
\* Languages runs step by step under SpecConc)
CallLanguages ==
    /\ nops < MaxOps
    /\ \E list \in Languages(Store) :
        last' = [Call("Languages") EXCEPT !.list = list]
    /\ nops' = nops + 1
    /\ UNCHANGED concVars
    /\ UNCHANGED <<languages, heap, languagesRaw, files>>

CallLanguage ==
    /\ nops < MaxOps
    /\ \E lang \in Codes : \E r \in Language(Store, lang) :
        last' = [Call("Language") EXCEPT !.lang = lang, !.desc = r.desc, !.err = r.err]
    /\ nops' = nops + 1
    /\ UNCHANGED concVars
    /\ UNCHANGED <<languages, heap, languagesRaw, files>>

CallAddLanguage ==
    /\ nops < MaxOps
    /\ \E lang \in Codes, base \in Codes : \E r \in AddLanguage(Store, lang, base) :
        /\ Becomes(r.st)
        /\ last' = [Call("AddLanguage") EXCEPT !.lang = lang, !.base = base, !.desc = r.desc, !.err = r.err, !.changed = (r.st # Store)]
    /\ nops' = nops + 1
    /\ UNCHANGED concVars

CallRemoveLanguage ==
    /\ nops < MaxOps
    /\ \E lang \in Codes :
        LET r == RemoveLanguage(Store, lang)
        IN  /\ Becomes(r.st)
            /\ last' = [Call("RemoveLanguage") EXCEPT !.lang = lang, !.err = r.err, !.changed = (r.st # Store)]
    /\ nops' = nops + 1
    /\ UNCHANGED concVars

CallSync ==
    /\ nops < MaxOps
    /\ \E base \in Codes, orphanRemoval \in BOOLEAN : \E r \in Sync(Store, base, orphanRemoval) :
        /\ Becomes(r.st)
        /\ last' = [Call("Sync") EXCEPT !.base = base, !.flag = orphanRemoval, !.err = r.err, !.changed = (r.st # Store)]
    /\ nops' = nops + 1
    /\ UNCHANGED concVars

CallSave ==
    /\ nops < MaxOps
    /\ \E indent \in BOOLEAN : \E r \in Save(Store, indent) :
        /\ Becomes(r.st)
        /\ last' = [Call("Save") EXCEPT !.flag = indent, !.err = r.err, !.changed = (r.st # Store)]
    /\ nops' = nops + 1
    /\ UNCHANGED concVars

Next ==
    \/ CallLoad
    \/ CallGet
    \/ CallSet
    \/ CallGetAll
    \/ CallRemove
    \/ CallLanguage
    \/ CallAddLanguage
    \/ CallRemoveLanguage
    \/ CallSync
    \/ CallSave

Spec == Init /\ [][Next]_vars

----------------------------------------------------------------------------
(* Flatten and re-nest.  A store over a directory that holds one document *)
(* of string leaves: Load flattens it with extractKeys and Save re-nests  *)
(* it with insert.                                                        *)

\* most string leaves a drawn document has
MaxLeaves == 3

\* member names of the drawn documents: "a", "b", "a.b" and ""
Names == {KA, KB, <<"a", ".", "b">>, EmptyString}

\* the objects whose members are drawn from `values`
Objects(values) == UNION {[S -> values] : S \in SUBSET Names}

\* the number of string leaves of a document
RECURSIVE LeafCount(_)
LeafCount(m) ==
    IF DOMAIN m = {} THEN 0
    ELSE LET k == CHOOSE x \in DOMAIN m : TRUE
         IN  (IF m[k].type = "object" THEN LeafCount(m[k].m) ELSE 1)
                + LeafCount([x \in (DOMAIN m) \ {k} |-> m[x]])

\* the documents: string leaves at the top or one object below ({} included)
Trees ==
    {T \in Objects({JString(TX)} \cup {JObject(m) : m \in Objects({JString(TX)})}) :
        LeafCount(T) <= MaxLeaves}

\* the store just constructed over a directory with de.json, before Load
InitFlat ==
    \E T \in Trees :
        /\ languages = EmptyMap
        /\ heap = <<>>
        /\ languagesRaw = EmptyMap
        /\ files = [c \in {"de"} |-> Bytes("orig", T)]
        /\ last = Call("NewTranslator")
        /\ nops = 0
        /\ mutexLang = NoThread
        /\ mutexRaw = NoThread
        /\ threads = [t \in Threads |-> Idle]
        /\ access = NoAccess
        /\ crashed = FALSE

NextFlat ==
    \/ CallLoad
    \/ CallSave

SpecFlat == InitFlat /\ [][NextFlat]_vars

----------------------------------------------------------------------------
(* The read-only projections on their own *)

NextRead ==
    \/ CallLanguage
    \/ CallLanguages

SpecRead == Init /\ [][NextRead]_vars

----------------------------------------------------------------------------
(* The calls step by step.  A step is one access to t.languages, to a      *)
(* Language map or to t.languagesRaw, or one Lock; the Unlock that follows *)
(* a write is taken with the write.  pc names the step a goroutine takes   *)
(* next.                                                                   *)

\* calls started by all goroutines together
MaxCalls == 2

\* the steps that read t.languages without holding t.mutexLang
ReadsLanguages == {"get1", "set1", "ga1", "rm1", "ls0", "ls1", "lg1", "al1", "rl1", "sy1", "sy2", "sy7", "sv1", "sv2"}

\* the steps that read the Language map th.ref / th.bref without holding t.mutexLang
ReadsRef == {"get2", "ga2", "lg2", "sy3", "sy8", "sv3"}
ReadsBref == {"sy4", "sy6"}

\* the steps that write t.languages, a Language map, t.languagesRaw (lock held)
WritesLanguages == {"al3", "rl3", "ld5"}
WritesRef == {"set3", "rm3", "sy5b", "sy9b"}
WritesRaw == {"rl6", "sv5", "ld3"}

\* goroutine t is at an unlocked read of a map that goroutine u is writing
RacesWith(t, u) ==
    LET a == threads[t]
        b == threads[u]
    IN  /\ u # t
        /\ \/ a.pc \in ReadsLanguages /\ b.pc \in WritesLanguages
           \/ a.pc \in ReadsRef /\ b.pc \in WritesRef /\ a.ref = b.ref
           \/ a.pc \in ReadsBref /\ b.pc \in WritesRef /\ a.bref = b.ref
           \/ a.pc = "sv7" /\ b.pc \in WritesRaw

\* the access a step of goroutine t makes
Reads(t, object) ==
    access' = [thread |-> t, object |-> object, kind |-> "read",
               locked |-> IF object = "languagesRaw" THEN mutexRaw = t ELSE mutexLang = t]
Writes(t, object) ==
    access' = [thread |-> t, object |-> object, kind |-> "write",
               locked |-> IF object = "languagesRaw" THEN mutexRaw = t ELSE mutexLang = t]
NoSharedAccess == access' = NoAccess

\* goroutine t goes on with locals th
Goto(t, th) == threads' = [threads EXCEPT ![t] = th]

\* goroutine t is at step pc
At(t, pc) == ~crashed /\ threads[t].pc = pc

storeVars == <<languages, heap, languagesRaw, files>>
lockVars == <<mutexLang, mutexRaw>>

\* a step that only reads: nothing but the goroutine and the access log changes
ReadOnly == UNCHANGED <<storeVars, lockVars, last, nops, crashed>>

\* the next entry of a range over a map with key set dom, of which `seen`
\* were produced; snap is the key set when the range began.  Entries created
\* during the range may be produced or skipped.
RangeSnap(dom, seen, snap) == IF seen = {} THEN dom ELSE snap
RangeCanEnd(dom, seen, snap) == (RangeSnap(dom, seen, snap) \cap dom) \ seen = {}
RangeRest(dom, seen) == dom \ seen

\* t.mutexLang.Lock() / t.mutexRaw.Lock()
LockLang(t, from, to) ==
    /\ At(t, from)
    /\ mutexLang = NoThread
    /\ mutexLang' = t
    /\ Goto(t, [threads[t] EXCEPT !.pc = to])
    /\ NoSharedAccess
    /\ UNCHANGED <<storeVars, mutexRaw, last, nops, crashed>>

LockRaw(t, from, to) ==
    /\ At(t, from)
    /\ mutexRaw = NoThread
    /\ mutexRaw' = t
    /\ Goto(t, [threads[t] EXCEPT !.pc = to])
    /\ NoSharedAccess
    /\ UNCHANGED <<storeVars, mutexLang, last, nops, crashed>>

\* a request arrives: an idle goroutine starts a call
Start(t) ==
    /\ At(t, "idle")
    /\ nops < MaxCalls
    /\ nops' = nops + 1
    /\ \E op \in {"Get", "Set", "GetAll", "Remove", "Languages", "Language",
                  "AddLanguage", "RemoveLanguage", "Sync", "Save", "Load"},
          key \in Keys, value \in Templates, lang \in Codes, base \in Codes, flag \in BOOLEAN :
        \* the arguments a call does not take stay blank
        /\ (op \in {"Get", "Set", "GetAll", "Remove"}) \/ key = KA
        /\ (op = "Set") \/ value = TX
        /\ (op \in {"Get", "Set", "Remove", "Language", "AddLanguage", "RemoveLanguage"}) \/ lang = "de"
        /\ (op \in {"AddLanguage", "Sync"}) \/ base = "de"
        /\ (op \in {"Sync", "Save"}) \/ flag = FALSE
        /\ Goto(t, [Idle EXCEPT
                !.op = op,
                !.key = IF op \in {"Get", "Set", "GetAll", "Remove"} THEN key ELSE EmptyString,
                !.value = IF op = "Set" THEN value ELSE EmptyString,
                !.lang = IF op \in {"Get", "Set", "Remove", "Language", "AddLanguage", "RemoveLanguage"}
                         THEN lang ELSE "",
                !.base = IF op \in {"AddLanguage", "Sync"} THEN base ELSE "",
                !.flag = flag,
                !.pc = CASE op = "Get" -> "get1" [] op = "Set" -> "set1" [] op = "GetAll" -> "ga1"
                         [] op = "Remove" -> "rm1" [] op = "Languages" -> "ls0"
                         [] op = "Language" -> "lg1" [] op = "AddLanguage" -> "al1"
                         [] op = "RemoveLanguage" -> "rl1" [] op = "Sync" -> "sy1"
                         [] op = "Save" -> "sv1" [] op = "Load" -> "ld0"])
    /\ NoSharedAccess
    /\ UNCHANGED <<storeVars, lockVars, last, crashed>>

\* fatal error: concurrent map read and map write.  The runtime may detect
\* an unlocked read of a map that another goroutine is writing.
Fatal(t) ==
    /\ ~crashed
    /\ \E u \in Threads : RacesWith(t, u)
    /\ crashed' = TRUE
    /\ Reads(t, IF threads[t].pc \in ReadsLanguages THEN "languages"
                ELSE IF threads[t].pc = "sv7" THEN "languagesRaw" ELSE "language")
    /\ UNCHANGED <<storeVars, lockVars, last, nops, threads>>

(* Get *)

\* if trans, ok := t.languages[lang]; ok
Get1(t) ==
    /\ At(t, "get1")
    /\ LET th == threads[t]
       IN  IF th.lang \in DOMAIN languages
           THEN Goto(t, [th EXCEPT !.pc = "get2", !.ref = languages[th.lang]])
           ELSE Goto(t, [th EXCEPT !.pc = "done", !.str = th.key])
    /\ Reads(t, "languages")
    /\ ReadOnly

\* if value, ok := trans[key]; ok
Get2(t) ==
    /\ At(t, "get2")
    /\ LET th == threads[t]
           trans == heap[th.ref]
       IN  Goto(t, [th EXCEPT !.pc = "done",
                              !.str = IF th.key \in DOMAIN trans THEN trans[th.key].Template ELSE th.key])
    /\ Reads(t, "language")
    /\ ReadOnly

(* Set *)

Set1(t) ==
    /\ At(t, "set1")
    /\ LET th == threads[t]
       IN  IF th.lang \in DOMAIN languages
           THEN Goto(t, [th EXCEPT !.pc = "set2", !.ref = languages[th.lang]])
           ELSE Goto(t, [th EXCEPT !.pc = "done", !.err = ErrLanguageNotFound])
    /\ Reads(t, "languages")
    /\ ReadOnly

Set2(t) == LockLang(t, "set2", "set3")

\* entry := trans[key]; entry.Template = value; trans[key] = entry; Unlock
Set3(t) ==
    /\ At(t, "set3")
    /\ LET th == threads[t]
           trans == heap[th.ref]
           entry == [MapIndex(trans, th.key) EXCEPT !.Template = th.value]
       IN  /\ heap' = [heap EXCEPT ![th.ref] = MapPut(trans, th.key, entry)]
           /\ Goto(t, [th EXCEPT !.pc = "done"])
    /\ Writes(t, "language")
    /\ mutexLang' = NoThread
    /\ UNCHANGED <<languages, languagesRaw, files, mutexRaw, last, nops, crashed>>

(* GetAll *)

\* for langCode, language := range t.languages
GetAll1(t) ==
    /\ At(t, "ga1")
    /\ LET th == threads[t]
           dom == DOMAIN languages
       IN  \/ /\ RangeCanEnd(dom, th.seenLangs, th.snapLangs)
              /\ Goto(t, [th EXCEPT !.pc = "done"])
           \/ \E langCode \in RangeRest(dom, th.seenLangs) :
                Goto(t, [th EXCEPT !.pc = "ga2", !.cur = langCode, !.ref = languages[langCode],
                                   !.snapLangs = RangeSnap(dom, th.seenLangs, th.snapLangs),
                                   !.seenLangs = th.seenLangs \cup {langCode}])
    /\ Reads(t, "languages")
    /\ ReadOnly

\* if translation, ok := language[key]; ok { values[langCode] = translation.Template }
GetAll2(t) ==
    /\ At(t, "ga2")
    /\ LET th == threads[t]
           language == heap[th.ref]
       IN  Goto(t, [th EXCEPT !.pc = "ga1",
                              !.values = IF th.key \in DOMAIN language
                                         THEN MapPut(th.values, th.cur, language[th.key].Template)
                                         ELSE th.values])
    /\ Reads(t, "language")
    /\ ReadOnly

(* Remove *)

Remove1(t) ==
    /\ At(t, "rm1")
    /\ LET th == threads[t]
       IN  IF th.lang \in DOMAIN languages
           THEN Goto(t, [th EXCEPT !.pc = "rm2", !.ref = languages[th.lang]])
           ELSE Goto(t, [th EXCEPT !.pc = "done", !.err = ErrLanguageNotFound])
    /\ Reads(t, "languages")
    /\ ReadOnly

Remove2(t) == LockLang(t, "rm2", "rm3")

\* delete(translations, key); Unlock
Remove3(t) ==
    /\ At(t, "rm3")
    /\ LET th == threads[t]
       IN  /\ heap' = [heap EXCEPT ![th.ref] = MapDelete(heap[th.ref], th.key)]
           /\ Goto(t, [th EXCEPT !.pc = "done"])
    /\ Writes(t, "language")
    /\ mutexLang' = NoThread
    /\ UNCHANGED <<languages, languagesRaw, files, mutexRaw, last, nops, crashed>>

(* Language, also as called by AddLanguage and Languages *)

\* if translations, ok := t.languages[lang]; ok
Language1(t) ==
    /\ At(t, "lg1")
    /\ LET th == threads[t]
           lang == IF th.op = "Languages" THEN th.cur ELSE th.lang
       IN  IF lang \in DOMAIN languages
           THEN Goto(t, [th EXCEPT !.pc = "lg2", !.ref = languages[lang], !.plain = <<>>,
                                   !.seenKeys = {}, !.snapKeys = {}])
           ELSE Goto(t, [th EXCEPT !.pc = "done", !.err = ErrLanguageNotFound])
    /\ Reads(t, "languages")
    /\ ReadOnly

\* for _, value := range translations { plain = append(plain, value) }
Language2(t) ==
    /\ At(t, "lg2")
    /\ LET th == threads[t]
           translations == heap[th.ref]
           dom == DOMAIN translations
       IN  \/ /\ RangeCanEnd(dom, th.seenKeys, th.snapKeys)
              /\ IF th.op = "Languages"
                 THEN Goto(t, [th EXCEPT !.pc = "ls1",
                                  !.list = Append(th.list, [id |-> th.cur,
                                              translations |-> Interface(MapOfInterface,
                                                  [id |-> th.cur,
                                                   translations |-> Interface(SliceOfTranslation, th.plain)])])])
                 ELSE Goto(t, [th EXCEPT !.pc = "done"])
           \/ \E key \in RangeRest(dom, th.seenKeys) :
                Goto(t, [th EXCEPT !.plain = Append(th.plain, translations[key]),
                                   !.snapKeys = RangeSnap(dom, th.seenKeys, th.snapKeys),
                                   !.seenKeys = th.seenKeys \cup {key}])
    /\ Reads(t, "language")
    /\ ReadOnly

(* Languages *)

\* make([]map[string]interface{}, 0, len(t.languages))
Languages0(t) ==
    /\ At(t, "ls0")
    /\ Goto(t, [threads[t] EXCEPT !.pc = "ls1"])
    /\ Reads(t, "languages")
    /\ ReadOnly

\* for langCode := range t.languages { language, err := t.Language(langCode) ... }
Languages1(t) ==
    /\ At(t, "ls1")
    /\ LET th == threads[t]
           dom == DOMAIN languages
       IN  \/ /\ RangeCanEnd(dom, th.seenLangs, th.snapLangs)
              /\ Goto(t, [th EXCEPT !.pc = "done"])
           \/ \E langCode \in RangeRest(dom, th.seenLangs) :
                Goto(t, [th EXCEPT !.pc = "lg1", !.cur = langCode,
                                   !.snapLangs = RangeSnap(dom, th.seenLangs, th.snapLangs),
                                   !.seenLangs = th.seenLangs \cup {langCode}])
    /\ Reads(t, "languages")
    /\ ReadOnly

(* AddLanguage *)

AddLanguage1(t) ==
    /\ At(t, "al1")
    /\ LET th == threads[t]
       IN  IF th.base \in DOMAIN languages
           THEN Goto(t, [th EXCEPT !.pc = "al2", !.ref = languages[th.base]])
           ELSE Goto(t, [th EXCEPT !.pc = "done", !.err = ErrLanguageNotFound])
    /\ Reads(t, "languages")
    /\ ReadOnly

AddLanguage2(t) == LockLang(t, "al2", "al3")

\* t.languages[lang] = translations; Unlock; return t.Language(lang)
AddLanguage3(t) ==
    /\ At(t, "al3")
    /\ LET th == threads[t]
       IN  /\ languages' = MapPut(languages, th.lang, th.ref)
           /\ Goto(t, [th EXCEPT !.pc = "lg1"])
    /\ Writes(t, "languages")
    /\ mutexLang' = NoThread
    /\ UNCHANGED <<heap, languagesRaw, files, mutexRaw, last, nops, crashed>>

(* RemoveLanguage *)

RemoveLanguage1(t) ==
    /\ At(t, "rl1")
    /\ LET th == threads[t]
       IN  IF th.lang \in DOMAIN languages
           THEN Goto(t, [th EXCEPT !.pc = "rl2"])
           ELSE Goto(t, [th EXCEPT !.pc = "done", !.err = ErrLanguageNotFound])
    /\ Reads(t, "languages")
    /\ ReadOnly

RemoveLanguage2(t) == LockLang(t, "rl2", "rl3")

\* delete(t.languages, lang); Unlock
RemoveLanguage3(t) ==
    /\ At(t, "rl3")
    /\ languages' = MapDelete(languages, threads[t].lang)
    /\ Goto(t, [threads[t] EXCEPT !.pc = "rl5"])
    /\ Writes(t, "languages")
    /\ mutexLang' = NoThread
    /\ UNCHANGED <<heap, languagesRaw, files, mutexRaw, last, nops, crashed>>

RemoveLanguage5(t) == LockRaw(t, "rl5", "rl6")

\* delete(t.languagesRaw, lang); Unlock
RemoveLanguage6(t) ==
    /\ At(t, "rl6")
    /\ languagesRaw' = MapDelete(languagesRaw, threads[t].lang)
    /\ Goto(t, [threads[t] EXCEPT !.pc = "rl8"])
    /\ Writes(t, "languagesRaw")
    /\ mutexRaw' = NoThread
    /\ UNCHANGED <<languages, heap, files, mutexLang, last, nops, crashed>>

\* return os.Remove(path.Join(t.directory, lang+".json"))
RemoveLanguage8(t) ==
    /\ At(t, "rl8")
    /\ LET th == threads[t]
       IN  /\ files' = MapDelete(files, th.lang)
           /\ Goto(t, [th EXCEPT !.pc = "done",
                                 !.err = IF th.lang \in DOMAIN files THEN Nil ELSE ErrNotExist])
    /\ NoSharedAccess
    /\ UNCHANGED <<languages, heap, languagesRaw, lockVars, last, nops, crashed>>

(* Sync *)

\* baseLanguage, ok := t.languages[base]
Sync1(t) ==
    /\ At(t, "sy1")
    /\ LET th == threads[t]
       IN  IF th.base \in DOMAIN languages
           THEN Goto(t, [th EXCEPT !.pc = IF th.flag THEN "sy2" ELSE "sy6", !.bref = languages[th.base]])
           ELSE Goto(t, [th EXCEPT !.pc = "done", !.err = ErrLanguageNotFound])
    /\ Reads(t, "languages")
    /\ ReadOnly

\* orphan removal: for langCode, language := range t.languages { if langCode != base
Sync2(t) ==
    /\ At(t, "sy2")
    /\ LET th == threads[t]
           dom == DOMAIN languages
       IN  \/ /\ RangeCanEnd(dom, th.seenLangs, th.snapLangs)
              /\ Goto(t, [th EXCEPT !.pc = "sy6", !.seenLangs = {}, !.snapLangs = {},
                                    !.seenKeys = {}, !.snapKeys = {}])
           \/ \E langCode \in RangeRest(dom, th.seenLangs) :
                Goto(t, [th EXCEPT !.pc = IF langCode # th.base THEN "sy3" ELSE "sy2",
                                   !.cur = langCode, !.ref = languages[langCode],
                                   !.seenKeys = {}, !.snapKeys = {},
                                   !.snapLangs = RangeSnap(dom, th.seenLangs, th.snapLangs),
                                   !.seenLangs = th.seenLangs \cup {langCode}])
    /\ Reads(t, "languages")
    /\ ReadOnly

\* for key := range language
Sync3(t) ==
    /\ At(t, "sy3")
    /\ LET th == threads[t]
           dom == DOMAIN heap[th.ref]
       IN  \/ /\ RangeCanEnd(dom, th.seenKeys, th.snapKeys)
              /\ Goto(t, [th EXCEPT !.pc = "sy2"])
           \/ \E key \in RangeRest(dom, th.seenKeys) :
                Goto(t, [th EXCEPT !.pc = "sy4", !.curKey = key,
                                   !.snapKeys = RangeSnap(dom, th.seenKeys, th.snapKeys),
                                   !.seenKeys = th.seenKeys \cup {key}])
    /\ Reads(t, "language")
    /\ ReadOnly

\* if _, ok := baseLanguage[key]; !ok
Sync4(t) ==
    /\ At(t, "sy4")
    /\ LET th == threads[t]
       IN  Goto(t, [th EXCEPT !.pc = IF th.curKey \notin DOMAIN heap[th.bref] THEN "sy5a" ELSE "sy3"])
    /\ Reads(t, "language")
    /\ ReadOnly

Sync5a(t) == LockLang(t, "sy5a", "sy5b")

\* delete(language, key); Unlock
Sync5b(t) ==
    /\ At(t, "sy5b")
    /\ LET th == threads[t]
       IN  /\ heap' = [heap EXCEPT ![th.ref] = MapDelete(heap[th.ref], th.curKey)]
           /\ Goto(t, [th EXCEPT !.pc = "sy3"])
    /\ Writes(t, "language")
    /\ mutexLang' = NoThread
    /\ UNCHANGED <<languages, languagesRaw, files, mutexRaw, last, nops, crashed>>

\* fill-forward: for key, translation := range baseLanguage
Sync6(t) ==
    /\ At(t, "sy6")
    /\ LET th == threads[t]
           baseLanguage == heap[th.bref]
           dom == DOMAIN baseLanguage
       IN  \/ /\ RangeCanEnd(dom, th.seenKeys, th.snapKeys)
              /\ Goto(t, [th EXCEPT !.pc = "done"])
           \/ \E key \in RangeRest(dom, th.seenKeys) :
                Goto(t, [th EXCEPT !.pc = "sy7", !.curKey = key, !.translation = baseLanguage[key],
                                   !.seenLangs = {}, !.snapLangs = {},
                                   !.snapKeys = RangeSnap(dom, th.seenKeys, th.snapKeys),
                                   !.seenKeys = th.seenKeys \cup {key}])
    /\ Reads(t, "language")
    /\ ReadOnly

\* for langCode, language := range t.languages { if langCode != base
Sync7(t) ==
    /\ At(t, "sy7")
    /\ LET th == threads[t]
           dom == DOMAIN languages
       IN  \/ /\ RangeCanEnd(dom, th.seenLangs, th.snapLangs)
              /\ Goto(t, [th EXCEPT !.pc = "sy6"])
           \/ \E langCode \in RangeRest(dom, th.seenLangs) :
                Goto(t, [th EXCEPT !.pc = IF langCode # th.base THEN "sy8" ELSE "sy7",
                                   !.cur = langCode, !.ref = languages[langCode],
                                   !.snapLangs = RangeSnap(dom, th.seenLangs, th.snapLangs),
                                   !.seenLangs = th.seenLangs \cup {langCode}])
    /\ Reads(t, "languages")
    /\ ReadOnly

\* if _, ok := language[key]; !ok
Sync8(t) ==
    /\ At(t, "sy8")
    /\ LET th == threads[t]
       IN  Goto(t, [th EXCEPT !.pc = IF th.curKey \notin DOMAIN heap[th.ref] THEN "sy9a" ELSE "sy7"])
    /\ Reads(t, "language")
    /\ ReadOnly

Sync9a(t) == LockLang(t, "sy9a", "sy9b")

\* language[key] = translation; Unlock
Sync9b(t) ==
    /\ At(t, "sy9b")
    /\ LET th == threads[t]
       IN  /\ heap' = [heap EXCEPT ![th.ref] = MapPut(heap[th.ref], th.curKey, th.translation)]
           /\ Goto(t, [th EXCEPT !.pc = "sy7"])
    /\ Writes(t, "language")
    /\ mutexLang' = NoThread
    /\ UNCHANGED <<languages, languagesRaw, files, mutexRaw, last, nops, crashed>>

(* Save *)

\* the bytes of a file that os.Create has truncated and nothing was written to
EmptyBytes == Bytes("empty", EmptyMap)

\* for lang := range t.languages
Save1(t) ==
    /\ At(t, "sv1")
    /\ LET th == threads[t]
           dom == DOMAIN languages
       IN  \/ /\ RangeCanEnd(dom, th.seenLangs, th.snapLangs)
              /\ Goto(t, [th EXCEPT !.pc = "done"])
           \/ \E lang \in RangeRest(dom, th.seenLangs) :
                Goto(t, [th EXCEPT !.pc = "sv2", !.cur = lang,
                                   !.snapLangs = RangeSnap(dom, th.seenLangs, th.snapLangs),
                                   !.seenLangs = th.seenLangs \cup {lang}])
    /\ Reads(t, "languages")
    /\ ReadOnly

\* syncRaw: if language, ok := t.languages[lang]; ok { target := make(...)
Save2(t) ==
    /\ At(t, "sv2")
    /\ LET th == threads[t]
       IN  IF th.cur \in DOMAIN languages
           THEN Goto(t, [th EXCEPT !.pc = "sv3", !.ref = languages[th.cur], !.target = EmptyMap,
                                   !.seenKeys = {}, !.snapKeys = {}])
           ELSE Goto(t, [th EXCEPT !.pc = "done", !.err = ErrLanguageNotFound])
    /\ Reads(t, "languages")
    /\ ReadOnly

\* syncRaw: for key, translation := range language { insert(...) }; json.Marshal
Save3(t) ==
    /\ At(t, "sv3")
    /\ LET th == threads[t]
           language == heap[th.ref]
           dom == DOMAIN language
       IN  \/ /\ RangeCanEnd(dom, th.seenKeys, th.snapKeys)
              /\ Goto(t, [th EXCEPT !.pc = "sv4", !.bytes = Marshal(th.target, th.flag)])
           \/ \E key \in RangeRest(dom, th.seenKeys) :
                LET r == insert(key, language[key].Template, th.target)
                IN  IF r.panic
                    THEN Goto(t, [th EXCEPT !.pc = "done", !.err = Panic])
                    ELSE Goto(t, [th EXCEPT !.target = r.target,
                                            !.snapKeys = RangeSnap(dom, th.seenKeys, th.snapKeys),
                                            !.seenKeys = th.seenKeys \cup {key}])
    /\ Reads(t, "language")
    /\ ReadOnly

Save4(t) == LockRaw(t, "sv4", "sv5")

\* syncRaw: t.languagesRaw[lang] = b; Unlock
Save5(t) ==
    /\ At(t, "sv5")
    /\ LET th == threads[t]
       IN  /\ languagesRaw' = MapPut(languagesRaw, th.cur, th.bytes)
           /\ Goto(t, [th EXCEPT !.pc = "sv6"])
    /\ Writes(t, "languagesRaw")
    /\ mutexRaw' = NoThread
    /\ UNCHANGED <<languages, heap, files, mutexLang, last, nops, crashed>>

\* f, err := os.Create(path.Join(t.directory, lang+".json"))
Save6(t) ==
    /\ At(t, "sv6")
    /\ files' = MapPut(files, threads[t].cur, EmptyBytes)
    /\ Goto(t, [threads[t] EXCEPT !.pc = "sv7"])
    /\ NoSharedAccess
    /\ UNCHANGED <<languages, heap, languagesRaw, lockVars, last, nops, crashed>>

\* f.Write(t.languagesRaw[lang]); f.Close()
Save7(t) ==
    /\ At(t, "sv7")
    /\ LET th == threads[t]
       IN  /\ files' = MapPut(files, th.cur,
                              IF th.cur \in DOMAIN languagesRaw THEN languagesRaw[th.cur] ELSE EmptyBytes)
           /\ Goto(t, [th EXCEPT !.pc = "sv1"])
    /\ Reads(t, "languagesRaw")
    /\ UNCHANGED <<languages, heap, languagesRaw, lockVars, last, nops, crashed>>

(* Load *)

ErrDecode == "DecodeError"

\* the first code in CodeOrder that is in S
FirstCode(S) ==
    CodeOrder[CHOOSE i \in 1 .. Len(CodeOrder) :
                  CodeOrder[i] \in S /\ \A j \in 1 .. (i - 1) : CodeOrder[j] \notin S]

\* filepath.Walk reads the names in the directory
Load0(t) ==
    /\ At(t, "ld0")
    /\ Goto(t, [threads[t] EXCEPT !.pc = "ld1", !.snapLangs = DOMAIN files, !.seenLangs = {}])
    /\ NoSharedAccess
    /\ ReadOnly

\* the callback on the next name: os.Open, ioutil.ReadAll, json.Unmarshal
Load1(t) ==
    /\ At(t, "ld1")
    /\ LET th == threads[t]
           rest == th.snapLangs \ th.seenLangs
       IN  IF rest = {} THEN Goto(t, [th EXCEPT !.pc = "done"])
           ELSE LET name == FirstCode(rest)
                IN  IF name \notin DOMAIN files
                    THEN Goto(t, [th EXCEPT !.pc = "done", !.err = ErrNotExist])
                    ELSE IF files[name] = EmptyBytes
                    THEN Goto(t, [th EXCEPT !.pc = "done", !.err = ErrDecode])
                    ELSE Goto(t, [th EXCEPT !.pc = "ld2", !.cur = name, !.bytes = files[name],
                                            !.seenLangs = th.seenLangs \cup {name}])
    /\ NoSharedAccess
    /\ ReadOnly

Load2(t) == LockRaw(t, "ld2", "ld3")

\* parseLanguage: t.languagesRaw[name] = b; Unlock
Load3(t) ==
    /\ At(t, "ld3")
    /\ LET th == threads[t]
       IN  /\ languagesRaw' = MapPut(languagesRaw, th.cur, th.bytes)
           /\ Goto(t, [th EXCEPT !.pc = "ld4"])
    /\ Writes(t, "languagesRaw")
    /\ mutexRaw' = NoThread
    /\ UNCHANGED <<languages, heap, files, mutexLang, last, nops, crashed>>

Load4(t) == LockLang(t, "ld4", "ld5")

\* parseLanguage: t.languages[name] = t.extractKeys("", lang); Unlock
Load5(t) ==
    /\ At(t, "ld5")
    /\ LET th == threads[t]
           ref == NewRef(Store)
       IN  /\ \E keys \in extractKeys(EmptyString, Unmarshal(th.bytes)) :
                 heap' = MapPut(heap, ref, keys)
           /\ languages' = MapPut(languages, th.cur, ref)
           /\ Goto(t, [th EXCEPT !.pc = "ld1"])
    /\ Writes(t, "languages")
    /\ mutexLang' = NoThread
    /\ UNCHANGED <<languagesRaw, files, mutexRaw, last, nops, crashed>>

\* the handler has answered; the goroutine is free for the next request
Return(t) ==
    /\ At(t, "done")
    /\ Goto(t, Idle)
    /\ NoSharedAccess
    /\ ReadOnly

\* the store behind the concurrent runs: de.json = {"a": "x"}, en.json = DocTwo
ConcFiles == [c \in {"de", "en"} |-> IF c = "de" THEN Bytes("orig", DocOne) ELSE Bytes("orig", DocTwo)]

InitConc ==
    \E st \in NewTranslator(ConcFiles) :
        /\ languages = st.languages
        /\ heap = st.heap
        /\ languagesRaw = st.languagesRaw
        /\ files = st.files
        /\ last = Call("NewTranslator")
        /\ nops = 0
        /\ mutexLang = NoThread
        /\ mutexRaw = NoThread
        /\ threads = [t \in Threads |-> Idle]
        /\ access = NoAccess
        /\ crashed = FALSE

NextConc ==
    \E t \in Threads :
        \/ Start(t)
        \/ Fatal(t)
        \/ Return(t)
        \/ Get1(t)
        \/ Get2(t)
        \/ Set1(t)
        \/ Set2(t)
        \/ Set3(t)
        \/ GetAll1(t)
        \/ GetAll2(t)
        \/ Remove1(t)
        \/ Remove2(t)
        \/ Remove3(t)
        \/ Language1(t)
        \/ Language2(t)
        \/ Languages0(t)
        \/ Languages1(t)
        \/ AddLanguage1(t)
        \/ AddLanguage2(t)
        \/ AddLanguage3(t)
        \/ RemoveLanguage1(t)
        \/ RemoveLanguage2(t)
        \/ RemoveLanguage3(t)
        \/ RemoveLanguage5(t)
        \/ RemoveLanguage6(t)
        \/ RemoveLanguage8(t)
        \/ Sync1(t)
        \/ Sync2(t)
        \/ Sync3(t)
        \/ Sync4(t)
        \/ Sync5a(t)
        \/ Sync5b(t)
        \/ Sync6(t)
        \/ Sync7(t)
        \/ Sync8(t)
        \/ Sync9a(t)
        \/ Sync9b(t)
        \/ Save1(t)
        \/ Save2(t)
        \/ Save3(t)
        \/ Save4(t)
        \/ Save5(t)
        \/ Save6(t)
        \/ Save7(t)
        \/ Load0(t)
        \/ Load1(t)
        \/ Load2(t)
        \/ Load3(t)
        \/ Load4(t)
        \/ Load5(t)

SpecConc == InitConc /\ [][NextConc]_vars

----------------------------------------------------------------------------
(* Properties *)

\* the codes loaded in the current store
Loaded == DOMAIN languages

\* the key set of a loaded language
KeysOf(st, lang) == DOMAIN LanguageOf(st, lang)

\* C1: independence after clone.  When AddLanguage(N, B) with N # B has
\* succeeded and the next call is a successful Set(X, v, N) (or Set(X, v, B)),
\* Get(X, B) (or Get(X, N)) returns after the Set what it returned before it.
C1_CloneThenSetIndependent ==
    [][(/\ last.op = "AddLanguage" /\ last.err = Nil /\ last.lang # last.base
        /\ last'.op = "Set" /\ last'.err = Nil
        /\ last'.lang \in {last.lang, last.base})
       => \A other \in {last.lang, last.base} \ {last'.lang} :
              Get(Store', last'.key, other) = Get(Store, last'.key, other)]_vars

\* C2: Sync completeness.  After Sync(base, true) has returned without error,
\* every loaded language has exactly the key set of base.
C2_SyncCompleteness ==
    (last.op = "Sync" /\ last.flag /\ last.err = Nil)
        => \A L \in Loaded : KeysOf(Store, L) = KeysOf(Store, last.base)

\* C2 witness: a Sync(base, true) that changed a language whose map is not
\* the base's own map.
C2_Witness ==
    /\ last.op = "Sync" /\ last.flag /\ last.err = Nil /\ last.changed
    /\ \E L \in Loaded : languages[L] # languages[last.base] /\ KeysOf(Store, L) # {}

\* C3: Sync keeps shared keys.  For either value of orphanRemoval, a key that
\* a non-base language and base both hold before Sync(base, orphanRemoval) has
\* in that language after the call the template it had before.
C3_SyncKeepsSharedKeys ==
    [][(last'.op = "Sync" /\ last'.err = Nil)
       => \A L \in Loaded \ {last'.base} :
            \A k \in KeysOf(Store, L) \cap KeysOf(Store, last'.base) :
                /\ k \in KeysOf(Store', L)
                /\ LanguageOf(Store', L)[k].Template = LanguageOf(Store, L)[k].Template]_vars

\* C3 witness: after a Sync that changed the store, a non-base language holds
\* a key of base under a template that differs from base's.
C3_Witness ==
    /\ last.op = "Sync" /\ last.err = Nil /\ last.changed
    /\ \E L \in Loaded \ {last.base} : \E k \in KeysOf(Store, L) \cap KeysOf(Store, last.base) :
          LanguageOf(Store, L)[k].Template # LanguageOf(Store, last.base)[k].Template

\* C4: Sync idempotence.  In the state a Sync(base, true) has left, another
\* Sync(base, true) changes nothing, whatever order its loops run in.
C4_SyncIdempotent ==
    (last.op = "Sync" /\ last.flag /\ last.err = Nil)
        => Sync(Store, last.base, TRUE) = {Outcome(Store, Nil)}

\* C4 witness: a Sync(base, true) that removed or added keys in a store that
\* holds at least two distinct maps.
C4_Witness ==
    /\ last.op = "Sync" /\ last.flag /\ last.err = Nil /\ last.changed
    /\ Cardinality(DOMAIN heap) >= 2

\* C5: lock discipline.  Every step that reads or writes t.languages or a
\* Language map is taken by a goroutine that holds t.mutexLang, and every step
\* that reads or writes t.languagesRaw by one that holds t.mutexRaw.
C5_LockDiscipline ==
    access.object \in {"languages", "language", "languagesRaw"} => access.locked

\* C6: LanguageNotFound.  Set, Remove, Language, RemoveLanguage (on lang) and
\* AddLanguage, Sync (on base) return ErrLanguageNotFound and leave languages,
\* every key map, the cached bytes and the documents as they were when the code
\* is not loaded, and do not return ErrLanguageNotFound when it is loaded.
C6_Code(call) == IF call.op \in {"AddLanguage", "Sync"} THEN call.base ELSE call.lang

C6_LanguageNotFound ==
    [][(last'.op \in {"Set", "Remove", "Language", "AddLanguage", "RemoveLanguage", "Sync"})
       => IF C6_Code(last') \in Loaded
          THEN last'.err # ErrLanguageNotFound
          ELSE last'.err = ErrLanguageNotFound /\ Store' = Store]_vars

\* C6 witness: a call on a code that is not loaded has returned
\* ErrLanguageNotFound while the store holds languages and cached bytes.
C6_Witness ==
    /\ last.op \in {"Set", "Remove", "Language", "AddLanguage", "RemoveLanguage", "Sync"}
    /\ last.err = ErrLanguageNotFound
    /\ C6_Code(last) \notin Loaded
    /\ Loaded # {} /\ DOMAIN languagesRaw # {}

\* C7: Get is total with key fallback.  Get(key, lang) returns the stored
\* template when lang is loaded and holds key, returns key otherwise, and
\* leaves the store as it was.
C7_GetFallback ==
    [][(last'.op = "Get")
       => /\ Store' = Store
          /\ last'.err = Nil
          /\ LET key == last'.key
                 lang == last'.lang
             IN  IF lang \in Loaded /\ key \in DOMAIN heap[languages[lang]]
                 THEN last'.str = heap[languages[lang]][key].Template
                 ELSE last'.str = key]_vars

\* C7 witness: Get has returned the key itself for a loaded language that
\* does not hold it.
C7_Witness ==
    /\ last.op = "Get" /\ last.lang \in Loaded
    /\ last.key \notin KeysOf(Store, last.lang)
    /\ last.str = last.key

\* C8: key identity.  Every entry of every loaded language's map has its own
\* key in its Key field.
C8_KeyIdentity ==
    \A lang \in Loaded : \A k \in KeysOf(Store, lang) : LanguageOf(Store, lang)[k].Key = k

\* C9: Remove deletes one key of one language.  Remove(key, lang) on a loaded
\* lang returns no error, lang no longer holds key, lang's other keys keep
\* their entries, and every other loaded code's key map is as it was.
C9_RemoveOneKeyOneLanguage ==
    [][(last'.op = "Remove" /\ last'.lang \in Loaded)
       => /\ last'.err = Nil
          /\ Loaded' = Loaded
          /\ KeysOf(Store', last'.lang) = KeysOf(Store, last'.lang) \ {last'.key}
          /\ \A k \in KeysOf(Store', last'.lang) :
                LanguageOf(Store', last'.lang)[k] = LanguageOf(Store, last'.lang)[k]
          /\ \A c \in Loaded \ {last'.lang} :
                LanguageOf(Store', c) = LanguageOf(Store, c)]_vars

\* C10: RemoveLanguage destroys the language.  After RemoveLanguage(code) on a
\* loaded code, code is in neither languages nor languagesRaw and <code>.json
\* does not exist, and every other loaded language keeps its key map and its
\* cached bytes.
C10_RemoveLanguageDestroys ==
    [][(last'.op = "RemoveLanguage" /\ last'.lang \in Loaded)
       => /\ Loaded' = Loaded \ {last'.lang}
          /\ last'.lang \notin DOMAIN languagesRaw'
          /\ last'.lang \notin DOMAIN files'
          /\ \A c \in Loaded \ {last'.lang} :
                /\ LanguageOf(Store', c) = LanguageOf(Store, c)
                /\ (c \in DOMAIN languagesRaw') = (c \in DOMAIN languagesRaw)
                /\ c \in DOMAIN languagesRaw => languagesRaw'[c] = languagesRaw[c]]_vars

\* C10 witness: RemoveLanguage has removed a code that AddLanguage registered
\* and no Save wrote (os.Remove found no document), and at least one other
\* language with cached bytes remains.
C10_Witness ==
    /\ last.op = "RemoveLanguage" /\ last.err = ErrNotExist
    /\ last.lang \notin Loaded
    /\ \E c \in Loaded : c \in DOMAIN languagesRaw

\* key p is a proper path prefix of key k: k is p, a ".", and more
IsPathPrefix(p, k) == Len(k) > Len(p) /\ SubSeq(k, 1, Len(p) + 1) = p \o <<".">>

\* a key set holds a leaf/container collision: a key p together with a key p.q
Collides(keys) == \E p \in keys, k \in keys : IsPathPrefix(p, k)

\* C11: a leaf/container collision is surfaced as an error.  When Save has run
\* over a store in which some language holds both a key p and a key p.q, it
\* has returned a decode error (it has neither returned nil after dropping one
\* of the two entries nor ended in a panic).
C11_CollisionIsError ==
    (last.op = "Save" /\ \E lang \in Loaded : Collides(KeysOf(Store, lang)))
        => last.err = ErrDecode

\* a document the flat keys can carry: every member name is non-empty and
\* has no ".", and every nested object has a member
RECURSIVE WellFormed(_)
WellFormed(m) ==
    \A k \in DOMAIN m :
        /\ k # EmptyString
        /\ ~HasDot(k)
        /\ m[k].type = "object" => (DOMAIN m[k].m # {} /\ WellFormed(m[k].m))

\* C12 as stated: round trip for every document of string leaves.  A Save
\* that follows a Load returns nil and leaves in every file a document equal
\* to the one the file held (the one Load flattened).
C12_RoundTrip ==
    [][(last.op = "Load" /\ last'.op = "Save")
        => /\ last'.err = Nil
           /\ \A lang \in DOMAIN files :
                Unmarshal(files'[lang]) = Unmarshal(files[lang])]_vars

\* C12 amended: the round trip holds for the documents whose member names are
\* non-empty and free of "." and whose nested objects are non-empty.
C12_RoundTripWellFormed ==
    [][(last.op = "Load" /\ last'.op = "Save"
            /\ \A lang \in DOMAIN files : WellFormed(Unmarshal(files[lang])))
        => /\ last'.err = Nil
           /\ \A lang \in DOMAIN files :
                Unmarshal(files'[lang]) = Unmarshal(files[lang])]_vars

\* Load then Save have run over {"a": {"a": "x", "b": "x"}, "b": "x"}
C12_Witness ==
    /\ last.op = "Save"
    /\ last.err = Nil
    /\ "de" \in DOMAIN languages
    /\ files["de"].fmt # "orig"
    /\ WellFormed(Unmarshal(files["de"]))
    /\ DOMAIN Unmarshal(files["de"]) = {KA, KB}
    /\ Unmarshal(files["de"])[KA] = JObject([k \in {KA, KB} |-> JString(TX)])

\* C13: re-nesting does not depend on the insertion order.  For the flat map
\* of every loaded language, the loop of syncRaw ends in one and the same
\* tree whatever order the range hands the keys in.
C13_InsertionOrderIndependent ==
    \A lang \in Loaded :
        LET language == LanguageOf(Store, lang)
        IN  \A r1, r2 \in insertAll(language, DOMAIN language, EmptyMap) : r1 = r2

\* the templates of a flat map, key by key
TemplatesOf(language) == [k \in DOMAIN language |-> language[k].Template]

\* C14: Save persists the current state.  A Save that returns nil changes no
\* key map, and for every loaded language the cached raw bytes and the file
\* are the same bytes, in the asked formatting, of a document that holds
\* exactly the language's current entries (it flattens back to the language's
\* key -> template map).
C14_SavePersists ==
    [][(last'.op = "Save" /\ nops' = nops + 1 /\ last'.err = Nil)
        => /\ languages' = languages
           /\ heap' = heap
           /\ \A lang \in DOMAIN languages' :
                /\ lang \in DOMAIN languagesRaw'
                /\ lang \in DOMAIN files'
                /\ files'[lang] = languagesRaw'[lang]
                /\ files'[lang].fmt = (IF last'.flag THEN "indent" ELSE "compact")
                /\ \A keys \in extractKeys(EmptyString, Unmarshal(files'[lang])) :
                        TemplatesOf(keys) = TemplatesOf(heap'[languages'[lang]])]_vars

\* v holds the list of exactly the entries of `language`, one per key
IsEntryList(v, language) ==
    /\ v.type = SliceOfTranslation
    /\ Len(v.v) = Cardinality(DOMAIN language)
    /\ \A k \in DOMAIN language : \E i \in 1 .. Len(v.v) : v.v[i] = language[k]

\* C15: descriptor shape.  Language(code) on a loaded code returns
\* {id: code, translations: the list of the language's entries, one per key},
\* and Languages() returns one such descriptor per loaded language.
C15_DescriptorShape ==
    /\ (last.op = "Language" /\ last.err = Nil)
        => /\ last.desc.id = last.lang
           /\ IsEntryList(last.desc.translations, LanguageOf(Store, last.lang))
    /\ last.op = "Languages"
        => /\ Len(last.list) = Cardinality(Loaded)
           /\ \A lang \in Loaded : \E i \in 1 .. Len(last.list) : last.list[i].id = lang
           /\ \A i \in 1 .. Len(last.list) :
                IsEntryList(last.list[i].translations, LanguageOf(Store, last.list[i].id))

\* the segments of a key between its "."s are all non-empty: the key is not
\* empty and has no leading, trailing or doubled "."
RECURSIVE ValidDotPath(_)
ValidDotPath(key) ==
    IF ~HasDot(key) THEN key # EmptyString
    ELSE KeyHead(key) # EmptyString /\ ValidDotPath(KeyRest(key))

\* C16: dot-path validity.  Every key of every loaded language's flat map is
\* a valid dot-path.
C16_KeysAreDotPaths ==
    \A lang \in Loaded : \A k \in KeysOf(Store, lang) : ValidDotPath(k)

\* C17: fill-forward copies the base entry.  For either value of
\* orphanRemoval, a key k of base that a non-base language L lacks before
\* Sync(base, orphanRemoval) is in L after the call with base's entry (same
\* Key field, same template); and a Set(k, v, L) after it makes Get(k, L)
\* return v while Get(k, base) still returns base's template.
C17_FillForwardCopies ==
    [][(last'.op = "Sync" /\ nops' = nops + 1 /\ last'.err = Nil)
       => \A L \in Loaded \ {last'.base} :
            \A k \in KeysOf(Store, last'.base) \ KeysOf(Store, L) :
                /\ k \in KeysOf(Store', L)
                /\ LanguageOf(Store', L)[k] = LanguageOf(Store, last'.base)[k]
                /\ \A v \in Templates :
                     LET after == Set(Store', k, v, L).st
                     IN  /\ Get(after, k, L) = v
                         /\ Get(after, k, last'.base)
                                = LanguageOf(Store, last'.base)[k].Template]_vars

\* C17 witness: a Sync(base, false) has added keys, and a non-base language
\* with a map of its own holds base's entry for a key
C17_Witness ==
    /\ last.op = "Sync" /\ ~last.flag /\ last.err = Nil /\ last.changed
    /\ \E L \in Loaded \ {last.base} :
          /\ languages[L] # languages[last.base]
          /\ \E k \in KeysOf(Store, L) \cap KeysOf(Store, last.base) :
                LanguageOf(Store, L)[k] = LanguageOf(Store, last.base)[k]

\* C18: Sync never overwrites a concurrent translation.  Whenever a goroutine
\* running Sync does its fill-forward write language[key] = translation, the
\* language does not hold the key at that moment.
C18_SyncNeverOverwrites ==
    [][\A t \in Threads :
        (threads[t].pc = "sy9b" /\ threads'[t].pc = "sy7")
            => threads[t].curKey \notin DOMAIN heap[threads[t].ref]]_vars

\* no call is running
Quiescent == \A t \in Threads : threads[t].pc \in {"idle", "done"}

\* C19: removal is not undone by a concurrent Save.  When a RemoveLanguage(code)
\* that did not return ErrLanguageNotFound and a Save have both finished,
\* neither the cached raw bytes nor the directory holds code; and whenever no
\* call is running, every code with cached raw bytes is a loaded code.
C19_RemovalNotUndone ==
    /\ \A t1, t2 \in Threads :
        (/\ threads[t1].pc = "done" /\ threads[t1].op = "RemoveLanguage"
         /\ threads[t1].err # ErrLanguageNotFound
         /\ threads[t2].pc = "done" /\ threads[t2].op = "Save")
            => /\ threads[t1].lang \notin DOMAIN languagesRaw
               /\ threads[t1].lang \notin DOMAIN files
    /\ Quiescent => DOMAIN languagesRaw \subseteq DOMAIN languages

\* C20: Sync frame.  Sync(base, orphanRemoval) leaves base's key map, the set
\* of loaded codes and the cached raw bytes as they were; and with
\* orphanRemoval false every key a language held before the call is in it
\* afterwards with the same template.
C20_SyncFrame ==
    [][(last'.op = "Sync" /\ nops' = nops + 1)
       => /\ DOMAIN languages' = DOMAIN languages
          /\ languagesRaw' = languagesRaw
          /\ last'.base \in Loaded
                => LanguageOf(Store', last'.base) = LanguageOf(Store, last'.base)
          /\ ~last'.flag
                => \A L \in Loaded : \A k \in KeysOf(Store, L) :
                      /\ k \in KeysOf(Store', L)
                      /\ LanguageOf(Store', L)[k].Template = LanguageOf(Store, L)[k].Template]_vars

\* C20 witness: after a Sync(base, false) a non-base language holds a key
\* that base lacks
C20_Witness ==
    /\ last.op = "Sync" /\ ~last.flag /\ last.err = Nil
    /\ \E L \in Loaded \ {last.base} : KeysOf(Store, L) \ KeysOf(Store, last.base) # {}

====
